---- MODULE Spec2Model ----
(***************************************************************************)
(* Model of the fetch/cache engine of src/content_fetcher.py               *)
(* (class ContentFetcher) as it is driven by the extraction scripts        *)
(* (src/teams.py, src/movies.py, src/countries.py): several fetch_content  *)
(* coroutines run interleaved on one event loop and share the two cache    *)
(* dictionaries and the cache file.  A coroutine is suspended only at an   *)
(* await; everything between two awaits is one atomic step.                *)
(***************************************************************************)
EXTENDS Integers, Sequences, FiniteSets, TLC

VARIABLES
    successful_cache,   \* self.successful_cache : cache key -> success entry
    bad_request_cache,  \* self.bad_request_cache : cache key -> failure entry
    file,               \* contents of the file at self.cache_file_path
    now,                \* the value time.time() last returned
    task,               \* per coroutine: position and locals of fetch_content
    last_call,          \* the fetch_content call that ended last: its arguments and what the caller got
    returned,           \* history: cache key -> value returned by the fetch that wrote the success entry
    write_failures      \* number of failed writes of the cache file so far

vars == <<successful_cache, bad_request_cache, file, now, task, last_call, returned, write_failures>>

-----------------------------------------------------------------------------
(* Bounds of the model. *)

MaxTime == 1            \* the clock is read as 0..MaxTime
MaxWriteFailures == 1   \* failed writes of the cache file in one behaviour
MaxParams == 2          \* entries of a params mapping in the key specification

Tasks == {"t1", "t2"}

-----------------------------------------------------------------------------
(* Python values: a value is modelled by its type and its content. *)

Str(s) == [type |-> "str", val |-> s]
Dict(s) == [type |-> "dict", val |-> s]
None == [type |-> "NoneType", val |-> ""]

\* bs(markup, 'html.parser'): a document tree built from the markup
bs(v) == [type |-> "BeautifulSoup", val |-> v.val]

isinstance_str(v) == v.type = "str"

\* truth value of a str: the empty string is falsy
Truthy(v) == v.val # ""

-----------------------------------------------------------------------------
(* Dictionaries: a dict is a function whose domain is the set of its keys. *)

EmptyDict == <<>>

Put(d, k, v) == [x \in (DOMAIN d) \cup {k} |-> IF x = k THEN v ELSE d[x]]

Del(d, k) == [x \in (DOMAIN d) \ {k} |-> d[x]]

-----------------------------------------------------------------------------
(* The cache key: json.dumps((url, sorted(params.items()))).               *)
(* params is a dict in insertion order: a sequence of <<name, value>>      *)
(* pairs with distinct names.  A serialized document is the sequence of    *)
(* its tokens.                                                             *)

\* the order of Python's str comparison on the strings of the model
StrOrd(s) ==
    CASE s = "1" -> 1
      [] s = "2" -> 2
      [] s = "a" -> 3
      [] s = "b" -> 4
      [] s = "c" -> 5
      [] OTHER -> 6

\* tuple comparison (name, value) < (name, value), as sorted() applies it
ItemLess(p, q) ==
    \/ StrOrd(p[1]) < StrOrd(q[1])
    \/ StrOrd(p[1]) = StrOrd(q[1]) /\ StrOrd(p[2]) < StrOrd(q[2])

RECURSIVE Insert(_, _)
Insert(p, s) ==
    IF s = <<>> THEN <<p>>
    ELSE IF ItemLess(p, Head(s)) THEN <<p>> \o s
    ELSE <<Head(s)>> \o Insert(p, Tail(s))

UnsortedItems(items) == items

RECURSIVE sorted(_)
sorted(items) ==
    IF items = <<>> THEN <<>>
    ELSE Insert(Head(items), sorted(Tail(items)))

DumpStr(s) == <<"\"", s, "\"">>

DumpItem(p) == <<"[">> \o DumpStr(p[1]) \o <<", ">> \o DumpStr(p[2]) \o <<"]">>

RECURSIVE DumpItems(_)
DumpItems(items) ==
    IF items = <<>> THEN <<>>
    ELSE IF Len(items) = 1 THEN DumpItem(Head(items))
    ELSE DumpItem(Head(items)) \o <<", ">> \o DumpItems(Tail(items))

json_dumps(url, items) ==
    <<"[">> \o DumpStr(url) \o <<", ">> \o <<"[">> \o DumpItems(items) \o <<"]">> \o <<"]">>

cache_key(url, params) == json_dumps(url, sorted(params))

-----------------------------------------------------------------------------
(* Error messages: a message is the sequence of its parts. *)

EmptyHtmlMsg(url) == <<"Empty HTML content received from", url>>

UnexpectedTypeMsg(content_type, url) ==
    <<"Unexpected content type">> \o content_type \o <<"received from", url>>

ClientErrorMsg(e, url) ==
    <<"An error occurred during HTTP request:">> \o e \o <<"received from", url>>

TimeoutMsg(url) == <<"Request timed out for URL:", url>>

UnexpectedMsg(e, url) ==
    <<"An unexpected error occurred:">> \o e \o <<"received from", url>>

PreviouslyBadMsg(key) == <<"Request was previously marked as bad:">> \o key

-----------------------------------------------------------------------------
(* The declared content kind: response.headers.get('Content-Type', '').    *)
(* A header value is the sequence of its parts; lower() maps each part to  *)
(* lower case and `in` looks for the part.                                 *)

LowerPart(p) ==
    CASE p = "Text/HTML" -> "text/html"
      [] p = "Application/JSON" -> "application/json"
      [] OTHER -> p

lower(content_type) == [i \in DOMAIN content_type |-> LowerPart(content_type[i])]

Contains(content_type, part) == \E i \in DOMAIN content_type : content_type[i] = part

CaseSensitiveHtml(content_type) == Contains(content_type, "text/html")

IsHtml(content_type) == Contains(lower(content_type), "text/html")

IsJson(content_type) == Contains(lower(content_type), "application/json")

-----------------------------------------------------------------------------
(* The clock and the cache file. *)

\* time.time(): the clock does not go back; d is how far it moved since the last read
TimeRead(n, d) == IF n + d > MaxTime THEN MaxTime ELSE n + d

\* json.dump of {'successful_cache': ..., 'bad_request_cache': ...}
Dump(sc, bc) == [kind |-> "json", successful_cache |-> sc, bad_request_cache |-> bc]

MissingFile == [kind |-> "missing", successful_cache |-> EmptyDict, bad_request_cache |-> EmptyDict]

\* a file that does not parse: what a write that failed half way leaves behind
CorruptFile == [kind |-> "corrupt", successful_cache |-> EmptyDict, bad_request_cache |-> EmptyDict]

WriteOutcomes == {"ok", "open_failed", "dump_failed"}

\* the engine's memory: the two tables, the file, the clock, and the history
Mem == [sc |-> successful_cache, bc |-> bad_request_cache, file |-> file,
        now |-> now, wf |-> write_failures, ret |-> returned]

SaveFailureClearsTables(m, w) ==
    IF w = "ok" \/ m.wf >= MaxWriteFailures
    THEN [m EXCEPT !.file = Dump(m.sc, m.bc)]
    ELSE [m EXCEPT !.file = IF w = "open_failed" THEN m.file ELSE CorruptFile,
                   !.wf = m.wf + 1,
                   !.sc = EmptyDict, !.bc = EmptyDict]

\* save_cache_to_file: rewrites the whole file; a failure is logged and swallowed
save_cache_to_file(m, w) ==
    IF w = "ok" \/ m.wf >= MaxWriteFailures
    THEN [m EXCEPT !.file = Dump(m.sc, m.bc)]
    ELSE [m EXCEPT !.file = IF w = "open_failed" THEN m.file ELSE CorruptFile,
                   !.wf = m.wf + 1]

\* cache_data.get(name, {})
Get(cache_data, name) ==
    IF name \in DOMAIN cache_data THEN cache_data[name] ELSE EmptyDict

LoadWithoutDecodeHandler(f) ==
    CASE f.kind = "json" ->
           [sc |-> Get(f, "successful_cache"), bc |-> Get(f, "bad_request_cache"),
            raised |-> FALSE]
      [] f.kind = "missing" -> [sc |-> EmptyDict, bc |-> EmptyDict, raised |-> FALSE]
      [] f.kind = "corrupt" -> [sc |-> EmptyDict, bc |-> EmptyDict, raised |-> TRUE]
      [] OTHER -> [sc |-> EmptyDict, bc |-> EmptyDict, raised |-> TRUE]

\* load_cache_from_file, as __init__ calls it on the two empty tables: the
\* tables it leaves, and whether an exception leaves it. A file that is no
\* JSON object (OTHER) fails in open or in .get, before a table is assigned.
load_cache_from_file(f) ==
    CASE f.kind = "json" ->
           [sc |-> Get(f, "successful_cache"), bc |-> Get(f, "bad_request_cache"),
            raised |-> FALSE]
      [] f.kind = "missing" -> [sc |-> EmptyDict, bc |-> EmptyDict, raised |-> FALSE]
      [] f.kind = "corrupt" -> [sc |-> EmptyDict, bc |-> EmptyDict, raised |-> FALSE]
      [] OTHER -> [sc |-> EmptyDict, bc |-> EmptyDict, raised |-> FALSE]

-----------------------------------------------------------------------------
(* _handle_error_and_cache and the except clauses of _fetch_with_session.  *)
(* Each returns the memory it leaves, whether it raised, and the message.  *)
(* d: the clock's moves at the reads of time.time(); w: the outcome of the *)
(* write of the cache file.                                                *)

HandleForgetsFirstRequest(m, key, url, params, error_message, ignore_bad_request, d, w) ==
    IF ~ignore_bad_request
    THEN LET last == TimeRead(m.now, d[1])
             first == TimeRead(last, d[2])
             entry == [url |-> url, params |-> params, last_request |-> last,
                       error |-> error_message, first_request |-> first]
             m1 == [m EXCEPT !.bc = Put(m.bc, key, entry), !.now = first]
         IN  [m |-> save_cache_to_file(m1, w), raised |-> TRUE, error |-> error_message]
    ELSE [m |-> m, raised |-> FALSE, error |-> error_message]

HandleAlwaysRecords(m, key, url, params, error_message, ignore_bad_request, d, w) ==
    LET last == TimeRead(m.now, d[1])
        has == key \in DOMAIN m.bc
        first == IF has THEN m.bc[key].first_request ELSE TimeRead(last, d[2])
        entry == [url |-> url, params |-> params, last_request |-> last,
                  error |-> error_message, first_request |-> first]
        m1 == [m EXCEPT !.bc = Put(m.bc, key, entry),
                        !.now = IF has THEN last ELSE first]
    IN  [m |-> save_cache_to_file(m1, w), raised |-> ~ignore_bad_request, error |-> error_message]

HandleDropsSuccess(m, key, url, params, error_message, ignore_bad_request, d, w) ==
    IF ~ignore_bad_request
    THEN LET last == TimeRead(m.now, d[1])
             has == key \in DOMAIN m.bc
             first == IF has THEN m.bc[key].first_request ELSE TimeRead(last, d[2])
             entry == [url |-> url, params |-> params, last_request |-> last,
                       error |-> error_message, first_request |-> first]
             m1 == [m EXCEPT !.bc = Put(m.bc, key, entry),
                             !.sc = IF key \in DOMAIN m.sc THEN Del(m.sc, key) ELSE m.sc,
                             !.now = IF has THEN last ELSE first]
         IN  [m |-> save_cache_to_file(m1, w), raised |-> TRUE, error |-> error_message]
    ELSE [m |-> m, raised |-> FALSE, error |-> error_message]

handle_error_and_cache(m, key, url, params, error_message, ignore_bad_request, d, w) ==
    IF ~ignore_bad_request
    THEN LET last == TimeRead(m.now, d[1])
             has == key \in DOMAIN m.bc
             first == IF has THEN m.bc[key].first_request ELSE TimeRead(last, d[2])
             entry == [url |-> url, params |-> params, last_request |-> last,
                       error |-> error_message, first_request |-> first]
             m1 == [m EXCEPT !.bc = Put(m.bc, key, entry),
                             !.now = IF has THEN last ELSE first]
         IN  [m |-> save_cache_to_file(m1, w), raised |-> TRUE, error |-> error_message]
    ELSE [m |-> m, raised |-> FALSE, error |-> error_message]

\* except aiohttp.ClientError as e
except_ClientError(m, key, url, params, e, ignore_bad_request, d, w) ==
    handle_error_and_cache(m, key, url, params, ClientErrorMsg(e, url), ignore_bad_request, d, w)

\* except asyncio.TimeoutError
except_TimeoutError(m, key, url, params, ignore_bad_request, d, w) ==
    handle_error_and_cache(m, key, url, params, TimeoutMsg(url), ignore_bad_request, d, w)

\* except Exception as e
except_Exception(m, key, url, params, e, ignore_bad_request, d, w) ==
    handle_error_and_cache(m, key, url, params, UnexpectedMsg(e, url), ignore_bad_request, d, w)

\* _handle_error_and_cache called inside the try block (empty HTML, unexpected
\* content type): the ValueError it raises is caught by `except Exception`,
\* which handles it a second time; d has three moves, w two outcomes
content_fault(m, key, url, params, error_message, ignore_bad_request, d, w) ==
    LET h == handle_error_and_cache(m, key, url, params, error_message,
                                    ignore_bad_request, <<d[1], d[2]>>, w[1])
    IN  IF h.raised
        THEN except_Exception(h.m, key, url, params, h.error, ignore_bad_request,
                              <<d[3], 0>>, w[2])
        ELSE h

\* the bad-request check: the entry's last_request is refreshed and the
\* ValueError raised is caught by `except Exception`
previously_bad(m, key, url, params, ignore_bad_request, d, w) ==
    LET t1 == TimeRead(m.now, d[1])
        m1 == [m EXCEPT !.bc[key].last_request = t1, !.now = t1]
    IN  except_Exception(m1, key, url, params, PreviouslyBadMsg(key), ignore_bad_request,
                         <<d[2], 0>>, w)

StoreKeepsFailure(m, key, url, params, data, result, d, w) ==
    LET first == TimeRead(m.now, d[1])
        last == TimeRead(first, d[2])
        entry == [url |-> url, params |-> params, first_request |-> first,
                  last_request |-> last, data |-> data]
        m1 == [m EXCEPT !.sc = Put(m.sc, key, entry),
                        !.ret = Put(m.ret, key, result),
                        !.now = last]
    IN  save_cache_to_file(m1, w)

StoreFirstWriterWins(m, key, url, params, data, result, d, w) ==
    LET first == TimeRead(m.now, d[1])
        last == TimeRead(first, d[2])
        entry == [url |-> url, params |-> params, first_request |-> first,
                  last_request |-> last, data |-> data]
        m1 == [m EXCEPT !.sc = IF key \in DOMAIN m.sc THEN m.sc ELSE Put(m.sc, key, entry),
                        !.bc = IF key \in DOMAIN m.bc THEN Del(m.bc, key) ELSE m.bc,
                        !.ret = Put(m.ret, key, result),
                        !.now = last]
    IN  save_cache_to_file(m1, w)

\* a successful response: the entry is written, a failure entry of the key is
\* deleted, the file is saved
store_success(m, key, url, params, data, result, d, w) ==
    LET first == TimeRead(m.now, d[1])
        last == TimeRead(first, d[2])
        entry == [url |-> url, params |-> params, first_request |-> first,
                  last_request |-> last, data |-> data]
        m1 == [m EXCEPT !.sc = Put(m.sc, key, entry),
                        !.bc = IF key \in DOMAIN m.bc THEN Del(m.bc, key) ELSE m.bc,
                        !.ret = Put(m.ret, key, result),
                        !.now = last]
    IN  save_cache_to_file(m1, w)

\* the value a cache hit returns for the stored data
cached_result(data) == IF isinstance_str(data) THEN bs(data) ELSE data

\* the success-cache check
cache_hit(force_refresh, key, sc) == ~force_refresh /\ key \in DOMAIN sc

\* the bad-request check
BadCheckInverted(ignore_bad_request, key, bc) == ignore_bad_request /\ key \in DOMAIN bc

bad_request_hit(ignore_bad_request, key, bc) == ~ignore_bad_request /\ key \in DOMAIN bc

-----------------------------------------------------------------------------
(* The callers' requests and the network's answers. *)

\* (url, params) pairs the callers fetch
Requests ==
    { <<"u1", << <<"b", "2">>, <<"a", "1">> >> >>,
      <<"u2", <<>> >> }

\* t1 calls with session=None (the call opens its own ClientSession, as every
\* caller in src/ does), t2 passes a session of its own
SessionOf(t) == IF t = "t1" THEN "own" ELSE "given"

ContentTypes ==
    { <<"Text/HTML", "; charset=utf-8">>,
      <<"Application/JSON">>,
      <<"text/plain">>,
      <<"application/json", "; profile=", "text/html">> }

\* what `await session.get(...)` and raise_for_status() end in
Statuses == {"200", "500", "timeout"}

\* what `await response.text()` yields
HtmlBodies == {Str(""), Str("<html>ok</html>")}

\* what `await response.json()` yields: a JSON object, a JSON string
JsonValues == {Dict("{k: 1}"), Str("ok")}

NoResponse == [status |-> "none", content_type |-> <<>>, body |-> None]

\* a coroutine that is not inside fetch_content
IdleTask ==
    [pc |-> "idle", url |-> "", params |-> <<>>, session |-> "none",
     force_refresh |-> FALSE, ignore_bad_request |-> FALSE, cache_key |-> <<>>,
     session_open |-> FALSE, sent |-> FALSE, response |-> NoResponse]

NoCall ==
    [task |-> "none", url |-> "", params |-> <<>>, session |-> "none",
     force_refresh |-> FALSE, ignore_bad_request |-> FALSE, cache_key |-> <<>>,
     sent |-> FALSE, response |-> NoResponse, had_entry |-> FALSE,
     path |-> "none", outcome |-> "none", result |-> None, error |-> <<>>]

\* the clock's moves at the n reads of time.time() of one step
Moves(n) == IF now >= MaxTime THEN {[i \in 1..n |-> 0]} ELSE [1..n -> {0, 1}]

\* the outcomes of the n writes of the cache file of one step
Writes(n) ==
    IF write_failures >= MaxWriteFailures
    THEN {[i \in 1..n |-> "ok"]}
    ELSE [1..n -> WriteOutcomes]

\* the same for a step that ends in _handle_error_and_cache, which reads no
\* clock and writes no file when ignore_bad_request is set
FaultMoves(me, n) == IF me.ignore_bad_request THEN {[i \in 1..n |-> 0]} ELSE Moves(n)

FaultWrites(me, n) == IF me.ignore_bad_request THEN {[i \in 1..n |-> "ok"]} ELSE Writes(n)

-----------------------------------------------------------------------------
(* The state after ContentFetcher(cache_file_path). *)

Key1 == cache_key("u1", << <<"b", "2">>, <<"a", "1">> >>)

Key2 == cache_key("u2", <<>>)

\* a store an earlier run of the engine left: u2 fetched as HTML, u1 timed out
EarlierStore ==
    Dump(Put(EmptyDict, Key2,
             [url |-> "u2", params |-> <<>>, first_request |-> 0, last_request |-> 0,
              data |-> Str("<html>ok</html>")]),
         Put(EmptyDict, Key1,
             [url |-> "u1", params |-> << <<"b", "2">>, <<"a", "1">> >>,
              first_request |-> 0, last_request |-> 0, error |-> TimeoutMsg("u1")]))

InitialFiles == {MissingFile, CorruptFile, EarlierStore}

Init ==
    /\ file \in InitialFiles
    /\ successful_cache = load_cache_from_file(file).sc
    /\ bad_request_cache = load_cache_from_file(file).bc
    /\ returned = [k \in DOMAIN successful_cache |-> cached_result(successful_cache[k].data)]
    /\ now = 0
    /\ task = [t \in Tasks |-> IdleTask]
    /\ last_call = NoCall
    /\ write_failures = 0

-----------------------------------------------------------------------------
(* The steps of fetch_content. *)

Commit(m) ==
    /\ successful_cache' = m.sc
    /\ bad_request_cache' = m.bc
    /\ file' = m.file
    /\ now' = m.now
    /\ write_failures' = m.wf
    /\ returned' = m.ret

SessionStaysOpen(t, me) == [IdleTask EXCEPT !.pc = "done", !.session_open = me.session_open]

\* where a coroutine is once _fetch_with_session has returned or raised: a
\* call that opened its own session leaves `async with`, which closes it
AfterFetch(t, me) == [IdleTask EXCEPT !.pc = "done"]

\* the call that ends in the step; had_entry: its key has a success entry as
\* the step begins
CallOf(t, me) ==
    [task |-> t, url |-> me.url, params |-> me.params, session |-> me.session,
     force_refresh |-> me.force_refresh, ignore_bad_request |-> me.ignore_bad_request,
     cache_key |-> me.cache_key, sent |-> me.sent, response |-> me.response,
     had_entry |-> me.cache_key \in DOMAIN successful_cache,
     path |-> "none", outcome |-> "none", result |-> None, error |-> <<>>]

\* the call returns value to its caller
Returns(t, me, path, value) ==
    /\ task' = [task EXCEPT ![t] = AfterFetch(t, me)]
    /\ last_call' = [CallOf(t, me) EXCEPT !.path = path, !.outcome = "returned",
                                          !.result = value]

\* the call ends as the handler h left it: the ValueError it raised goes to
\* the caller, or (nothing raised) the function falls off its end and
\* returns None
Faults(t, me, path, h) ==
    /\ task' = [task EXCEPT ![t] = AfterFetch(t, me)]
    /\ last_call' = [CallOf(t, me) EXCEPT
                        !.path = path,
                        !.outcome = IF h.raised THEN "raised" ELSE "returned",
                        !.result = None,
                        !.error = IF h.raised THEN h.error ELSE <<>>]

\* fetch_content is called; with session=None a ClientSession is opened, and
\* entering `async with` is the call's first await
fetch_content(t) ==
    /\ task[t].pc = "idle"
    /\ \E r \in Requests, f \in BOOLEAN, i \in BOOLEAN :
         task' = [task EXCEPT ![t] =
                    [IdleTask EXCEPT !.pc = "check", !.url = r[1], !.params = r[2],
                                     !.session = SessionOf(t), !.force_refresh = f,
                                     !.ignore_bad_request = i,
                                     !.session_open = (SessionOf(t) = "own")]]
    /\ UNCHANGED <<successful_cache, bad_request_cache, file, now, last_call,
                   returned, write_failures>>

CheckBadRequestFirst(t) ==
    /\ task[t].pc = "check"
    /\ LET key == cache_key(task[t].url, task[t].params)
           me == [task[t] EXCEPT !.cache_key = key]
       IN  IF bad_request_hit(me.ignore_bad_request, key, bad_request_cache)
           THEN \E d \in Moves(2), w \in Writes(1) :
                  LET h == previously_bad(Mem, key, me.url, me.params,
                                          me.ignore_bad_request, d, w[1])
                  IN  /\ Commit(h.m)
                      /\ Faults(t, me, "previously_bad", h)
           ELSE IF cache_hit(me.force_refresh, key, successful_cache)
           THEN \E d \in Moves(1) :
                  LET t1 == TimeRead(now, d[1])
                  IN  /\ successful_cache' =
                            [successful_cache EXCEPT ![key].last_request = t1]
                      /\ now' = t1
                      /\ Returns(t, me, "hit", cached_result(successful_cache[key].data))
                      /\ UNCHANGED <<bad_request_cache, file, returned, write_failures>>
           ELSE /\ task' = [task EXCEPT ![t] = [me EXCEPT !.pc = "get", !.sent = TRUE]]
                /\ UNCHANGED <<successful_cache, bad_request_cache, file, now,
                               last_call, returned, write_failures>>

\* _fetch_with_session up to `await session.get(...)`: the key, the
\* success-cache check, the bad-request check, the request sent
check_caches(t) ==
    /\ task[t].pc = "check"
    /\ LET key == cache_key(task[t].url, task[t].params)
           me == [task[t] EXCEPT !.cache_key = key]
       IN  IF cache_hit(me.force_refresh, key, successful_cache)
           THEN \E d \in Moves(1) :
                  LET t1 == TimeRead(now, d[1])
                  IN  /\ successful_cache' =
                            [successful_cache EXCEPT ![key].last_request = t1]
                      /\ now' = t1
                      /\ Returns(t, me, "hit", cached_result(successful_cache[key].data))
                      /\ UNCHANGED <<bad_request_cache, file, returned, write_failures>>
           ELSE IF bad_request_hit(me.ignore_bad_request, key, bad_request_cache)
           THEN \E d \in Moves(2), w \in Writes(1) :
                  LET h == previously_bad(Mem, key, me.url, me.params,
                                          me.ignore_bad_request, d, w[1])
                  IN  /\ Commit(h.m)
                      /\ Faults(t, me, "previously_bad", h)
           ELSE /\ task' = [task EXCEPT ![t] = [me EXCEPT !.pc = "get", !.sent = TRUE]]
                /\ UNCHANGED <<successful_cache, bad_request_cache, file, now,
                               last_call, returned, write_failures>>

\* `await session.get(...)` ends in an error: raise_for_status() on a
\* non-success status, or the 10-second timeout
request_fails(t) ==
    /\ task[t].pc = "get"
    /\ \E st \in Statuses \ {"200"}, d \in FaultMoves(task[t], 2), w \in FaultWrites(task[t], 1) :
         LET me == [task[t] EXCEPT !.response.status = st]
             key == me.cache_key
             h == IF st = "timeout"
                  THEN except_TimeoutError(Mem, key, me.url, me.params,
                                           me.ignore_bad_request, d, w[1])
                  ELSE except_ClientError(Mem, key, me.url, me.params, <<st>>,
                                          me.ignore_bad_request, d, w[1])
         IN  /\ Commit(h.m)
             /\ Faults(t, me, IF st = "timeout" THEN "timeout" ELSE "client_error", h)

\* `await session.get(...)` ends in a response of a success status: its
\* declared content kind is looked at
receive_response(t) ==
    /\ task[t].pc = "get"
    /\ \E ct \in ContentTypes :
         LET me == [task[t] EXCEPT !.response =
                       [status |-> "200", content_type |-> ct, body |-> None]]
             key == me.cache_key
         IN  IF IsHtml(ct)
             THEN /\ task' = [task EXCEPT ![t] = [me EXCEPT !.pc = "text"]]
                  /\ UNCHANGED <<successful_cache, bad_request_cache, file,
                                 now, last_call, returned, write_failures>>
             ELSE IF IsJson(ct)
             THEN /\ task' = [task EXCEPT ![t] = [me EXCEPT !.pc = "json"]]
                  /\ UNCHANGED <<successful_cache, bad_request_cache, file,
                                 now, last_call, returned, write_failures>>
             ELSE \E d \in FaultMoves(task[t], 3), w \in FaultWrites(task[t], 2) :
                    LET h == content_fault(Mem, key, me.url, me.params,
                                           UnexpectedTypeMsg(ct, me.url),
                                           me.ignore_bad_request, d, w)
                    IN  /\ Commit(h.m)
                        /\ Faults(t, me, "unexpected_type", h)

\* `await response.text()` ends with the body
read_text(t) ==
    /\ task[t].pc = "text"
    /\ \E html_content \in HtmlBodies :
         LET me == [task[t] EXCEPT !.response.body = html_content]
             key == me.cache_key
         IN  IF Truthy(html_content)
             THEN \E d \in Moves(2), w \in Writes(1) :
                    /\ Commit(store_success(Mem, key, me.url, me.params,
                                            html_content, bs(html_content), d, w[1]))
                    /\ Returns(t, me, "html", bs(html_content))
             ELSE \E d \in FaultMoves(task[t], 3), w \in FaultWrites(task[t], 2) :
                    LET h == content_fault(Mem, key, me.url, me.params,
                                           EmptyHtmlMsg(me.url),
                                           me.ignore_bad_request, d, w)
                    IN  /\ Commit(h.m)
                        /\ Faults(t, me, "empty_html", h)

\* `await response.json()` ends with the decoded value
read_json(t) ==
    /\ task[t].pc = "json"
    /\ \E json_content \in JsonValues, d \in Moves(2), w \in Writes(1) :
         LET me == [task[t] EXCEPT !.response.body = json_content]
             key == me.cache_key
         IN  /\ Commit(store_success(Mem, key, me.url, me.params,
                                     json_content, json_content, d, w[1]))
             /\ Returns(t, me, "json", json_content)

\* `await response.json()` raises: the body is no JSON document
json_fails(t) ==
    /\ task[t].pc = "json"
    /\ \E d \in FaultMoves(task[t], 2), w \in FaultWrites(task[t], 1) :
         LET me == [task[t] EXCEPT !.response.status = "undecodable"]
             key == me.cache_key
             h == except_Exception(Mem, key, me.url, me.params, <<"Expecting value">>,
                                   me.ignore_bad_request, d, w[1])
         IN  /\ Commit(h.m)
             /\ Faults(t, me, "exception", h)

Next ==
    \E t \in Tasks :
        \/ fetch_content(t)
        \/ check_caches(t)
        \/ request_fails(t)
        \/ receive_response(t)
        \/ read_text(t)
        \/ read_json(t)
        \/ json_fails(t)

Spec == Init /\ [][Next]_vars

-----------------------------------------------------------------------------
(* The key derivation on its own: two callers hold any two requests of the *)
(* bounded sets below and each derives its cache key.                      *)

AllUrls == {"u1", "u2"}

ParamNames == {"a", "b", "c"}

ParamValues == {"1", "2"}

Items == ParamNames \X ParamValues

\* the dicts of at most MaxParams entries, in every insertion order
AllParams ==
    { p \in UNION { [1..n -> Items] : n \in 0..MaxParams } :
        \A i, j \in DOMAIN p : i # j => p[i][1] # p[j][1] }

InitKey ==
    /\ file = MissingFile
    /\ successful_cache = EmptyDict
    /\ bad_request_cache = EmptyDict
    /\ returned = EmptyDict
    /\ now = 0
    /\ last_call = NoCall
    /\ write_failures = 0
    /\ task \in [Tasks -> { [IdleTask EXCEPT !.pc = "check", !.url = u, !.params = p] :
                            u \in AllUrls, p \in AllParams }]

\* cache_key = json.dumps((url, sorted(params.items())))
derive_key(t) ==
    /\ task[t].pc = "check"
    /\ task' = [task EXCEPT ![t].pc = "keyed",
                            ![t].cache_key = cache_key(task[t].url, task[t].params)]
    /\ UNCHANGED <<successful_cache, bad_request_cache, file, now, last_call,
                   returned, write_failures>>

NextKey == \E t \in Tasks : derive_key(t)

SpecKey == InitKey /\ [][NextKey]_vars

-----------------------------------------------------------------------------
(* The constructor on its own: ContentFetcher(cache_file_path) is called   *)
(* with any of the files below at the path.                                *)

\* the success entries a store can hold for request r
SuccessEntries(r) ==
    { [url |-> r[1], params |-> r[2], first_request |-> 0, last_request |-> l, data |-> x] :
        l \in 0..MaxTime, x \in (HtmlBodies \ {Str("")}) \cup JsonValues }

\* the failure entries a store can hold for request r
FailureEntries(r) ==
    { [url |-> r[1], params |-> r[2], first_request |-> 0, last_request |-> l, error |-> e] :
        l \in 0..MaxTime, e \in {TimeoutMsg(r[1]), ClientErrorMsg(<<"500">>, r[1])} }

\* the tables that hold, for some of the requests r, one of the entries E[r]
TablesOf(E) ==
    UNION { { f \in [ { cache_key(r[1], r[2]) : r \in R } -> UNION { E[r] : r \in R } ] :
                \A r \in R : f[cache_key(r[1], r[2])] \in E[r] } :
            R \in SUBSET Requests }

\* the files save_cache_to_file writes
PersistedStores ==
    { Dump(sc, bc) : sc \in TablesOf([r \in Requests |-> SuccessEntries(r)]),
                     bc \in TablesOf([r \in Requests |-> FailureEntries(r)]) }

\* a file that holds the JSON object {}
EmptyObjectFile == [kind |-> "json"]

\* a file that holds a JSON array: cache_data.get raises AttributeError
ArrayFile == [kind |-> "array"]

LoadFiles == {MissingFile, CorruptFile, EmptyObjectFile, ArrayFile} \cup PersistedStores

\* the object after lines 21-22 of __init__: the two tables are {}
InitLoad ==
    /\ file \in LoadFiles
    /\ successful_cache = EmptyDict
    /\ bad_request_cache = EmptyDict
    /\ returned = EmptyDict
    /\ now = 0
    /\ last_call = NoCall
    /\ write_failures = 0
    /\ task = [t \in Tasks |-> [IdleTask EXCEPT !.pc = "new"]]

\* line 23 of __init__: load_cache_from_file(); an exception that left it
\* would leave the constructor, and no coroutine could use the object
__init__ ==
    /\ \A t \in Tasks : task[t].pc = "new"
    /\ LET loaded == load_cache_from_file(file)
       IN  /\ successful_cache' = loaded.sc
           /\ bad_request_cache' = loaded.bc
           /\ returned' = [k \in DOMAIN loaded.sc |-> cached_result(loaded.sc[k].data)]
           /\ task' = [t \in Tasks |->
                         [IdleTask EXCEPT !.pc = IF loaded.raised THEN "failed" ELSE "idle"]]
    /\ UNCHANGED <<file, now, last_call, write_failures>>

NextLoad == __init__

SpecLoad == InitLoad /\ [][NextLoad]_vars

-----------------------------------------------------------------------------
(* Vocabulary of the properties. *)

\* coroutine t takes the step
Steps(t) == task'[t].pc # task[t].pc

\* the step is the one in which t's call ends; last_call' is then that call
Ends(t) == Steps(t) /\ task'[t].pc = "done"

KeyOf(t) == cache_key(task[t].url, task[t].params)

\* the ways a live request ends in a request fault
LiveFaultPaths == {"client_error", "timeout", "exception", "empty_html", "unexpected_type"}

\* the write of the cache file failed in the step
WriteFailed == write_failures' # write_failures

\* the name/value pairs of a params mapping, whatever their insertion order
ItemSet(params) == { params[i] : i \in DOMAIN params }

-----------------------------------------------------------------------------
(* C1 *)

\* C1: in every reachable state no cache key is present in both
\* successful_cache and bad_request_cache.
C1_TablesDisjoint ==
    (DOMAIN successful_cache) \cap (DOMAIN bad_request_cache) = {}

-----------------------------------------------------------------------------
(* C2 *)

\* C2: a fetch of a key that has a success entry, without force_refresh,
\* returns what the fetch that wrote the entry returned (same type, same
\* content), sends no request, and changes nothing in the store but the
\* entry's last_request.
C2_HitReturnsWhatWasReturned ==
    [][\A t \in Tasks :
         (/\ Steps(t)
          /\ task[t].pc = "check"
          /\ ~task[t].force_refresh
          /\ KeyOf(t) \in DOMAIN successful_cache)
         => /\ Ends(t)
            /\ last_call'.outcome = "returned"
            /\ last_call'.result = returned[KeyOf(t)]
            /\ ~last_call'.sent
            /\ bad_request_cache' = bad_request_cache
            /\ file' = file
            /\ successful_cache' =
                  [successful_cache EXCEPT ![KeyOf(t)].last_request =
                                              successful_cache'[KeyOf(t)].last_request]
    ]_vars

-----------------------------------------------------------------------------
(* C3 *)

\* C3: a fetch that does not return from the success cache (no entry, or
\* force_refresh), with ignore_bad_request false, and whose key is in
\* bad_request_cache at the check, ends in that step with a fault raised to
\* the caller and without a request sent.
C3_PreviouslyBadRaisesWithoutRequest ==
    [][\A t \in Tasks :
         (/\ Steps(t)
          /\ task[t].pc = "check"
          /\ (task[t].force_refresh \/ KeyOf(t) \notin DOMAIN successful_cache)
          /\ ~task[t].ignore_bad_request
          /\ KeyOf(t) \in DOMAIN bad_request_cache)
         => /\ Ends(t)
            /\ last_call'.task = t
            /\ last_call'.outcome = "raised"
            /\ ~last_call'.sent
    ]_vars

\* a forced refresh of a key that has both entries was refused: the fault
\* was raised and no request went out
C3_Witness ==
    /\ last_call.path = "previously_bad"
    /\ last_call.outcome = "raised"
    /\ ~last_call.sent
    /\ ~last_call.ignore_bad_request
    /\ last_call.force_refresh
    /\ last_call.cache_key \in DOMAIN successful_cache
    /\ last_call.cache_key \in DOMAIN bad_request_cache

-----------------------------------------------------------------------------
(* C4 *)

\* C4: a fetch with force_refresh of a key that has a success entry always
\* sends a request, whatever ignore_bad_request and bad_request_cache are,
\* and when the request succeeds the success entry holds the new data.
C4_ForcedRefreshAlwaysRequests ==
    [][\A t \in Tasks :
         /\ (/\ Steps(t)
             /\ task[t].pc = "check"
             /\ task[t].force_refresh
             /\ KeyOf(t) \in DOMAIN successful_cache)
            => (task'[t].pc = "get" /\ task'[t].sent)
         /\ (/\ Ends(t)
             /\ task[t].force_refresh
             /\ last_call'.path \in {"html", "json"})
            => successful_cache'[task[t].cache_key].data = last_call'.response.body
    ]_vars

-----------------------------------------------------------------------------
(* C5 *)

\* C5 as stated: when a key has a failure entry and a fetch of it with
\* ignore_bad_request gets a successful HTML or JSON response, then as the
\* fetch returns the key is absent from the failures and present in the
\* successes, in memory and in the file.
C5_Original ==
    [][\A t \in Tasks :
         (/\ Ends(t)
          /\ task[t].ignore_bad_request
          /\ task[t].cache_key \in DOMAIN bad_request_cache
          /\ last_call'.path \in {"html", "json"})
         => /\ task[t].cache_key \notin DOMAIN bad_request_cache'
            /\ task[t].cache_key \in DOMAIN successful_cache'
            /\ file'.kind = "json"
            /\ task[t].cache_key \notin DOMAIN file'.bad_request_cache
            /\ task[t].cache_key \in DOMAIN file'.successful_cache
    ]_vars

\* C5 amended: ... in memory, and in the file when the write of the file
\* did not fail (a failed write is logged and swallowed).
C5_SuccessSupersedesFailure ==
    [][\A t \in Tasks :
         (/\ Ends(t)
          /\ task[t].ignore_bad_request
          /\ task[t].cache_key \in DOMAIN bad_request_cache
          /\ last_call'.path \in {"html", "json"})
         => /\ task[t].cache_key \notin DOMAIN bad_request_cache'
            /\ task[t].cache_key \in DOMAIN successful_cache'
            /\ ~WriteFailed =>
                 /\ file'.kind = "json"
                 /\ task[t].cache_key \notin DOMAIN file'.bad_request_cache
                 /\ task[t].cache_key \in DOMAIN file'.successful_cache
    ]_vars

\* a fetch with ignore_bad_request of the key whose failure the earlier run
\* had recorded has succeeded
C5_Witness ==
    /\ last_call.ignore_bad_request
    /\ last_call.path \in {"html", "json"}
    /\ last_call.cache_key = Key1
    /\ Key1 \in DOMAIN successful_cache
    /\ Key1 \notin DOMAIN bad_request_cache
    /\ file.kind = "json"
    /\ Key1 \in DOMAIN file.successful_cache
    /\ Key1 \notin DOMAIN file.bad_request_cache

-----------------------------------------------------------------------------
(* C6 *)

\* C6: a fetch with ignore_bad_request never raises the previously-failed
\* fault, and when its live request faults, the failures and the file are
\* left as they were, nothing is raised and the call returns None.
C6_IgnoreBadRequestSuppresses ==
    [][\A t \in Tasks :
         (Ends(t) /\ task[t].ignore_bad_request)
         => /\ last_call'.path # "previously_bad"
            /\ last_call'.path \in LiveFaultPaths =>
                 /\ bad_request_cache' = bad_request_cache
                 /\ file' = file
                 /\ last_call'.outcome = "returned"
                 /\ last_call'.result = None
    ]_vars

\* a fetch with ignore_bad_request of a key that has a failure entry sent
\* its request, the request faulted, and the call returned None
C6_Witness ==
    /\ last_call.ignore_bad_request
    /\ last_call.sent
    /\ last_call.path \in LiveFaultPaths
    /\ last_call.outcome = "returned"
    /\ last_call.result = None
    /\ last_call.cache_key \in DOMAIN bad_request_cache

-----------------------------------------------------------------------------
(* C7 *)

\* C7 as stated: when a live request ends in a request fault and
\* ignore_bad_request is false, then as the call exits the key has a failure
\* entry whose error is the message of the raised fault and whose
\* last_request is the handling time, the store has been persisted to the
\* file, a fault is raised, and the first_request of an entry that existed
\* is preserved.
C7_Original ==
    [][\A t \in Tasks :
         (/\ Ends(t)
          /\ ~task[t].ignore_bad_request
          /\ last_call'.path \in LiveFaultPaths)
         => LET key == task[t].cache_key
            IN  /\ last_call'.outcome = "raised"
                /\ key \in DOMAIN bad_request_cache'
                /\ bad_request_cache'[key].error = last_call'.error
                /\ now <= bad_request_cache'[key].last_request
                /\ bad_request_cache'[key].last_request <= now'
                /\ key \in DOMAIN bad_request_cache =>
                     bad_request_cache'[key].first_request =
                        bad_request_cache[key].first_request
                /\ file' = Dump(successful_cache', bad_request_cache')
    ]_vars

\* C7 amended: ... the store has been persisted to the file unless the
\* write of the file failed (a failed write is logged and swallowed) ...
C7_FaultIsRecordedAndRaised ==
    [][\A t \in Tasks :
         (/\ Ends(t)
          /\ ~task[t].ignore_bad_request
          /\ last_call'.path \in LiveFaultPaths)
         => LET key == task[t].cache_key
            IN  /\ last_call'.outcome = "raised"
                /\ key \in DOMAIN bad_request_cache'
                /\ bad_request_cache'[key].error = last_call'.error
                /\ now <= bad_request_cache'[key].last_request
                /\ bad_request_cache'[key].last_request <= now'
                /\ key \in DOMAIN bad_request_cache =>
                     bad_request_cache'[key].first_request =
                        bad_request_cache[key].first_request
                /\ ~WriteFailed => file' = Dump(successful_cache', bad_request_cache')
    ]_vars

\* an empty HTML body was handled (twice) and raised; the entry carries the
\* message of the fault the caller got, was first recorded before the clock
\* moved, and is in the file
C7_Witness ==
    /\ ~last_call.ignore_bad_request
    /\ last_call.path = "empty_html"
    /\ last_call.outcome = "raised"
    /\ last_call.cache_key \in DOMAIN bad_request_cache
    /\ bad_request_cache[last_call.cache_key].error = last_call.error
    /\ bad_request_cache[last_call.cache_key].first_request
          < bad_request_cache[last_call.cache_key].last_request
    /\ file = Dump(successful_cache, bad_request_cache)

-----------------------------------------------------------------------------
(* C8 *)

-----------------------------------------------------------------------------
(* C9 *)

\* C9: two requests get the same cache key exactly when they have the same
\* url and the same name/value pairs, in whatever order the pairs were
\* inserted: the key does not depend on the order, and differs as soon as the
\* url, a name or a value differs.
C9_KeyIdentifiesRequest ==
    (task["t1"].pc = "keyed" /\ task["t2"].pc = "keyed")
    => ((task["t1"].cache_key = task["t2"].cache_key)
        <=> (/\ task["t1"].url = task["t2"].url
             /\ ItemSet(task["t1"].params) = ItemSet(task["t2"].params)))

\* two requests whose params were inserted in different orders have got the
\* same key
C9_Witness ==
    /\ task["t1"].pc = "keyed"
    /\ task["t2"].pc = "keyed"
    /\ Len(task["t1"].params) >= 2
    /\ task["t1"].params # task["t2"].params
    /\ ItemSet(task["t1"].params) = ItemSet(task["t2"].params)
    /\ task["t1"].url = task["t2"].url
    /\ task["t1"].cache_key = task["t2"].cache_key

-----------------------------------------------------------------------------
(* C10 *)

\* C10: every step that changes one of the two tables, the last_request
\* update of a success-cache hit included, rewrites the file in the same
\* fetch, so that when a fetch has ended (and no write of the file has
\* failed) the file holds the tables in memory.
C10_EveryMutationIsPersisted ==
    [][/\ ((successful_cache' # successful_cache \/ bad_request_cache' # bad_request_cache)
           /\ ~WriteFailed)
          => file' = Dump(successful_cache', bad_request_cache')
       /\ ((\E t \in Tasks : Ends(t)) /\ write_failures' = 0)
          => /\ load_cache_from_file(file').sc = successful_cache'
             /\ load_cache_from_file(file').bc = bad_request_cache'
    ]_vars

-----------------------------------------------------------------------------
(* C11 *)

\* the two parts of C11 that do not speak of the file: a fetch that finds no
\* success entry (and is not refused by the bad-request check) sends its
\* request whatever the other coroutine is doing; and the step in which a
\* fetch stores its successful response leaves, for its key, the entry it
\* built from its own response, whether or not the key had got an entry
\* since the fetch decided to send, and no other success entry changes.
C11_LastWriterInMemory ==
    \A t \in Tasks :
      /\ (/\ Steps(t)
          /\ task[t].pc = "check"
          /\ KeyOf(t) \notin DOMAIN successful_cache
          /\ (task[t].ignore_bad_request \/ KeyOf(t) \notin DOMAIN bad_request_cache))
         => (task'[t].pc = "get" /\ task'[t].sent)
      /\ (Ends(t) /\ last_call'.path \in {"html", "json"})
         => LET key == task[t].cache_key
            IN  /\ task[t].sent
                /\ key \in DOMAIN successful_cache'
                /\ successful_cache'[key].url = task[t].url
                /\ successful_cache'[key].params = task[t].params
                /\ successful_cache'[key].data = last_call'.response.body
                /\ now <= successful_cache'[key].first_request
                /\ successful_cache'[key].last_request <= now'
                /\ successful_cache' = Put(successful_cache, key, successful_cache'[key])

\* C11 as stated: two fetches of one key that has no success entry both send
\* a request; each one that succeeds writes the entry, and after its
\* write-and-persist step the entry in memory is its own and the file is the
\* tables in memory as of that step.
C11_Original ==
    [][/\ C11_LastWriterInMemory
       /\ \A t \in Tasks :
            (Ends(t) /\ last_call'.path \in {"html", "json"})
            => file' = Dump(successful_cache', bad_request_cache')
    ]_vars

\* C11 amended: ... and the file is the tables in memory as of that step
\* when the write of the file did not fail (a failed write is logged and
\* swallowed: the file stays as it was, or is left cut short).
C11_LastWriterWins ==
    [][/\ C11_LastWriterInMemory
       /\ \A t \in Tasks :
            (Ends(t) /\ last_call'.path \in {"html", "json"} /\ ~WriteFailed)
            => file' = Dump(successful_cache', bad_request_cache')
    ]_vars

\* both coroutines fetched u1 when it had no success entry, both sent their
\* request and both succeeded: the one that stored last found the entry of
\* the other, and the entry in memory and in the file is its own
C11_Witness ==
    /\ \A t \in Tasks : task[t].pc = "done"
    /\ last_call.cache_key = Key1
    /\ ~last_call.force_refresh
    /\ last_call.sent
    /\ last_call.had_entry
    /\ last_call.path = "json"
    /\ successful_cache[Key1].data = last_call.response.body
    /\ file = Dump(successful_cache, bad_request_cache)

-----------------------------------------------------------------------------
(* C12 *)

\* C12: once a key has a success entry, no step (a cache hit, a forced
\* refresh that succeeds, a second success of a concurrent fetch) changes the
\* entry's first_request.
C12_FirstRequestIsKept ==
    [][\A k \in DOMAIN successful_cache :
         /\ k \in DOMAIN successful_cache'
         /\ successful_cache'[k].first_request = successful_cache[k].first_request
    ]_vars

-----------------------------------------------------------------------------
(* C13 *)

\* C13: when the live request of a fetch with ignore_bad_request false ends
\* in a request fault of any kind, and the key had no failure entry, the
\* failure entry the fetch leaves has first_request equal to last_request,
\* also when the clock moves between two reads of it.
C13_NewFailureHasEqualTimes ==
    [][\A t \in Tasks :
         (/\ Ends(t)
          /\ ~task[t].ignore_bad_request
          /\ last_call'.path \in LiveFaultPaths
          /\ task[t].cache_key \notin DOMAIN bad_request_cache)
         => /\ task[t].cache_key \in DOMAIN bad_request_cache'
            /\ bad_request_cache'[task[t].cache_key].first_request =
                  bad_request_cache'[task[t].cache_key].last_request
    ]_vars

-----------------------------------------------------------------------------
(* C14 *)

\* C14: when a write of the cache file fails in the step that ends a fetch,
\* what the fetch returns or raises and the two tables (and the clock) it
\* leaves are what the same step leaves when every write succeeds, for some
\* moves of the clock; a fetch whose response was a success still returns its
\* data, and no failure entry is added.
C14_WriteFailureChangesOnlyTheFile ==
    [][\A t \in Tasks :
         (Ends(t) /\ WriteFailed)
         => LET c == last_call'
                key == c.cache_key
                body == c.response.body
                AllMoves == [1..3 -> {0, 1}]
                Same(m) == /\ successful_cache' = m.sc
                           /\ bad_request_cache' = m.bc
                           /\ now' = m.now
                SameFault(h) == /\ Same(h.m)
                                /\ c.outcome = (IF h.raised THEN "raised" ELSE "returned")
                                /\ h.raised => c.error = h.error
            IN  /\ c.path \in {"html", "json"} =>
                     /\ c.outcome = "returned"
                     /\ c.result = (IF c.path = "html" THEN bs(body) ELSE body)
                     /\ key \notin DOMAIN bad_request_cache'
                     /\ DOMAIN bad_request_cache' \subseteq DOMAIN bad_request_cache
                     /\ \E d \in AllMoves :
                          Same(store_success(Mem, key, c.url, c.params, body, c.result, d, "ok"))
                /\ c.path = "previously_bad" =>
                     \E d \in AllMoves :
                       SameFault(previously_bad(Mem, key, c.url, c.params,
                                                c.ignore_bad_request, d, "ok"))
                /\ c.path = "timeout" =>
                     \E d \in AllMoves :
                       SameFault(except_TimeoutError(Mem, key, c.url, c.params,
                                                     c.ignore_bad_request, d, "ok"))
                /\ c.path = "client_error" =>
                     \E d \in AllMoves :
                       SameFault(except_ClientError(Mem, key, c.url, c.params,
                                                    <<c.response.status>>,
                                                    c.ignore_bad_request, d, "ok"))
                /\ c.path = "exception" =>
                     \E d \in AllMoves :
                       SameFault(except_Exception(Mem, key, c.url, c.params,
                                                  <<"Expecting value">>,
                                                  c.ignore_bad_request, d, "ok"))
                /\ c.path = "empty_html" =>
                     \E d \in AllMoves :
                       SameFault(content_fault(Mem, key, c.url, c.params,
                                               EmptyHtmlMsg(c.url),
                                               c.ignore_bad_request, d, <<"ok", "ok">>))
                /\ c.path = "unexpected_type" =>
                     \E d \in AllMoves :
                       SameFault(content_fault(Mem, key, c.url, c.params,
                                               UnexpectedTypeMsg(c.response.content_type, c.url),
                                               c.ignore_bad_request, d, <<"ok", "ok">>))
                /\ c.path # "hit"
    ]_vars

\* a fetch of a key that had no success entry got an HTML document and
\* returned its tree, the entry is in memory, and the file, whose write
\* failed, does not hold it
C14_Witness ==
    /\ last_call.path = "html"
    /\ last_call.outcome = "returned"
    /\ last_call.result = bs(last_call.response.body)
    /\ ~last_call.had_entry
    /\ write_failures > 0
    /\ last_call.cache_key \in DOMAIN successful_cache
    /\ last_call.cache_key \notin DOMAIN bad_request_cache
    /\ last_call.cache_key \notin DOMAIN file.successful_cache

-----------------------------------------------------------------------------
(* C15 *)

\* C15: the constructor never fails because of the file; once it has
\* completed, both tables are empty when the file was missing or did not
\* parse, and the tables are the store when the file holds a store that
\* save_cache_to_file wrote.
C15_ConstructionNeverFails ==
    /\ \A t \in Tasks : task[t].pc # "failed"
    /\ (\A t \in Tasks : task[t].pc = "idle") =>
         /\ file.kind \in {"missing", "corrupt"} =>
              (successful_cache = EmptyDict /\ bad_request_cache = EmptyDict)
         /\ file \in PersistedStores =>
              file = [kind |-> "json", successful_cache |-> successful_cache,
                      bad_request_cache |-> bad_request_cache]

\* an engine was constructed on a file that holds a success entry and a
\* failure entry, and has them in its tables
C15_Witness ==
    /\ \A t \in Tasks : task[t].pc = "idle"
    /\ last_call = NoCall
    /\ file \in PersistedStores
    /\ Key2 \in DOMAIN successful_cache
    /\ Key1 \in DOMAIN bad_request_cache
    /\ successful_cache = file.successful_cache
    /\ bad_request_cache = file.bad_request_cache

-----------------------------------------------------------------------------
(* C16 *)

\* the places of a coroutine inside fetch_content
InFlight == {"check", "get", "text", "json"}

\* C16: a call made without a session opens one session of its own as it
\* starts and has closed it when it exits, on every path (cache hit, success,
\* fault raised, fault suppressed); a session a call opened is open only
\* while that call is in flight and a call that was given a session opens
\* none, so that no such session is open when no fetch is in flight.
C16_OwnSessionIsScopedToTheCall ==
    /\ [](\A t \in Tasks :
            /\ task[t].session_open => (task[t].pc \in InFlight /\ task[t].session = "own")
            /\ (task[t].pc \in InFlight /\ task[t].session = "own") => task[t].session_open)
    /\ [][\A t \in Tasks :
            /\ (Steps(t) /\ task[t].pc = "idle" /\ task'[t].session = "own")
               => (~task[t].session_open /\ task'[t].session_open)
            /\ Ends(t)
               => /\ ~task'[t].session_open
                  /\ \A u \in Tasks \ {t} : task'[u].session_open = task[u].session_open
         ]_vars

\* the call that opened its own session has exited with a fault raised, and
\* no session is open
C16_Witness ==
    /\ last_call.task = "t1"
    /\ last_call.session = "own"
    /\ last_call.sent
    /\ last_call.outcome = "raised"
    /\ task["t1"].pc = "done"
    /\ \A t \in Tasks : task[t].pc \notin InFlight /\ ~task[t].session_open

-----------------------------------------------------------------------------
(* C17 *)

\* C17: when a fetch is refused by the bad-request check (its key is in
\* bad_request_cache, ignore_bad_request is false, nothing was returned from
\* the success cache), the failure entry of the key changes in last_request
\* only: url, params, first_request and error are as before the call, and no
\* other entry changes.
C17_PreviouslyBadTouchesOnlyLastRequest ==
    [][\A t \in Tasks :
         (Ends(t) /\ last_call'.path = "previously_bad")
         => LET key == last_call'.cache_key
            IN  /\ key \in DOMAIN bad_request_cache'
                /\ bad_request_cache' =
                      [bad_request_cache EXCEPT ![key].last_request =
                                                  bad_request_cache'[key].last_request]
    ]_vars

-----------------------------------------------------------------------------
(* C18 *)

\* C18: no step removes a key from successful_cache, and a key leaves
\* bad_request_cache only in the step in which a fetch of that key stores a
\* successful response.
C18_EntriesAreNotDeleted ==
    [][/\ DOMAIN successful_cache \subseteq DOMAIN successful_cache'
       /\ \A k \in (DOMAIN bad_request_cache) \ (DOMAIN bad_request_cache') :
            \E t \in Tasks :
              /\ Ends(t)
              /\ task[t].cache_key = k
              /\ last_call'.path \in {"html", "json"}
              /\ k \in DOMAIN successful_cache'
    ]_vars

\* one call has been made on the store the earlier run left: the fetch of u1,
\* whose failure was on record, succeeded; u1 is gone from the failures and
\* the success entry of u2 is where it was
C18_Witness ==
    /\ \E t \in Tasks : task[t].pc = "idle" /\ last_call.task \notin {t, "none"}
    /\ last_call.cache_key = Key1
    /\ last_call.path \in {"html", "json"}
    /\ Key1 \notin DOMAIN bad_request_cache
    /\ Key1 \in DOMAIN successful_cache
    /\ Key2 \in DOMAIN successful_cache
    /\ successful_cache[Key2] = EarlierStore.successful_cache[Key2]

-----------------------------------------------------------------------------
(* C19 *)

\* C19: when the live request of a fetch with force_refresh ends in a request
\* fault, the success entry of its key, if there is one, is left as it was in
\* every field; and a fetch without force_refresh of a key that has a success
\* entry ends at the success-cache check with the entry's data returned, no
\* fault raised and no request sent, also when the key has a failure entry
\* and ignore_bad_request is false.
C19_FailedRefreshKeepsTheCachedEntry ==
    [][\A t \in Tasks :
         /\ (/\ Ends(t)
             /\ task[t].force_refresh
             /\ last_call'.path \in LiveFaultPaths
             /\ task[t].cache_key \in DOMAIN successful_cache)
            => /\ task[t].cache_key \in DOMAIN successful_cache'
               /\ successful_cache'[task[t].cache_key] = successful_cache[task[t].cache_key]
         /\ (/\ Steps(t)
             /\ task[t].pc = "check"
             /\ ~task[t].force_refresh
             /\ KeyOf(t) \in DOMAIN successful_cache)
            => /\ Ends(t)
               /\ last_call'.path = "hit"
               /\ last_call'.outcome = "returned"
               /\ last_call'.error = <<>>
               /\ ~last_call'.sent
               /\ last_call'.result.val = successful_cache[KeyOf(t)].data.val
               /\ successful_cache'[KeyOf(t)].data = successful_cache[KeyOf(t)].data
               /\ bad_request_cache' = bad_request_cache
    ]_vars

\* on the store the earlier run left, a forced refresh of u2 timed out and
\* was recorded as a failure; the fetch of u2 made after it, with the default
\* flags, returned the tree of the markup cached by the earlier run
C19_Witness ==
    /\ \A t \in Tasks : task[t].pc = "done"
    /\ last_call.path = "hit"
    /\ last_call.cache_key = Key2
    /\ ~last_call.force_refresh
    /\ ~last_call.ignore_bad_request
    /\ ~last_call.sent
    /\ last_call.outcome = "returned"
    /\ last_call.result = bs(EarlierStore.successful_cache[Key2].data)
    /\ Key2 \in DOMAIN bad_request_cache
    /\ bad_request_cache[Key2].error = TimeoutMsg("u2")
    /\ Key2 \in DOMAIN successful_cache
    /\ successful_cache[Key2].data = EarlierStore.successful_cache[Key2].data
    /\ successful_cache[Key2].first_request = EarlierStore.successful_cache[Key2].first_request

====
